---- MODULE Spec2Model ----
(***************************************************************************)
(* The search worker of kychess (src/src/search.rs): the worker loop of    *)
(* Search::init, the iterative-deepening driver, negamax and quiescence     *)
(* as an explicit stack machine, the transposition table, the periodic     *)
(* cancellation poll, and the command / event channels around them.        *)
(*                                                                         *)
(* The chess crate (board, legal-move generator, hashing) is outside the    *)
(* repository; it is represented by a finite game graph: a position is an  *)
(* identifier, and for every position the graph gives the legal moves in    *)
(* generator order (with the position each leads to and whether the move    *)
(* lands on an opposing piece), whether the side to move is in check, the   *)
(* static evaluation and whether only insufficient material is left.        *)
(***************************************************************************)
EXTENDS Integers, Sequences, FiniteSets, TLC

(***************************************************************************)
(* Bounds of the model.                                                    *)
(***************************************************************************)
\* Stand-in for the u8 ceiling 255 of `while depth < 255` (search.rs:146)
\* and of `ply >= 255` (search.rs:203, 340): depth runs over 1..Ceiling-1.
Ceiling == 4
\* Stand-in for the poll period 2048 of `nodes & 0x7ff == 0`
\* (search.rs:195, 332).
PollInterval == 4
\* Number of commands the controller sends on the command channel.
MaxCmds == 2
\* Number of buckets of the transposition table (1 << 21 in search.rs:51).
TTSize == 16
\* Most bishops and most knights a side has in the material examined.
MaxMinor == 2
\* Most pawns, rooks and queens a side has in the material examined.
MaxHeavy == 1
\* Most plies of a game played out move by move.
MaxPlies == 16
\* Stand-in for the 100 plies of the fifty-move rule.
FiftyMovePlies == 4
\* Most pieces of a position handed to the evaluation.
MaxPieces == 1
\* Number of input lines the reader thread is given.
MaxLines == 2

(***************************************************************************)
(* Program constants.                                                      *)
(***************************************************************************)
INFINITY == 1000000
\* Duration::from_millis(100), the safety margin, in milliseconds
SafetyMarginMs == 100
\* Duration::from_secs(5) and Duration::from_secs(30), in microseconds
CriticalTimeUs == 5000000
OkTimeUs == 30000000

\* Option::None of a move or record, and of an optional number.
None == "None"
NoneNum == 0 - 1

(***************************************************************************)
(* The game graph standing for chess::Board.                               *)
(***************************************************************************)
Mv(name, to, cap) == [mv |-> name, to |-> to, cap |-> cap]
NoMove == Mv(None, 0, FALSE)

\* The piece counts is_insufficient_material reads off the Board
\* (search.rs:400-443): pawns, bishops, knights, rooks and queens per side.
Material(wp, bp, wb, bb, wn, bn, wr, br, wq, bq) ==
    [white_pawn_count |-> wp, black_pawn_count |-> bp,
     white_bishop_count |-> wb, black_bishop_count |-> bb,
     white_knight_count |-> wn, black_knight_count |-> bn,
     white_rook_count |-> wr, black_rook_count |-> br,
     white_queen_count |-> wq, black_queen_count |-> bq]

\* kings only
BareKings == Material(0, 0, 0, 0, 0, 0, 0, 0, 0, 0)
\* king and bishop against king
BishopEnding == Material(0, 0, 1, 0, 0, 0, 0, 0, 0, 0)
\* pawns, rooks and minor pieces on both sides
Middlegame == Material(1, 1, 1, 1, 1, 1, 1, 1, 0, 0)

Pos(stm, check, eval, material, moves) ==
    [stm |-> stm, check |-> check, eval |-> eval, material |-> material,
     moves |-> moves]

\* Positions 1..8 form a middle game in which position 2 is reached from the
\* root 1 both in one ply (move a) and in three plies (moves b, d, f), and
\* in which a capture sequence starts at position 4. Positions 9..15 form an
\* endgame with Black to move: a capture into insufficient material (p), a
\* quiet move answered by a winning capture (u), a checkmate in one (q), and
\* a check answered by a capture into stalemate (r). Positions 16..19 form
\* a won game with White to move: a checkmate in one (m), and a quiet move
\* (x) after which Black's only reply lets White mate with a capture (z).
Game ==
    <<
    (* 1 *) Pos("White", FALSE, 0, Middlegame, <<Mv("a", 2, FALSE), Mv("b", 3, FALSE)>>),
    (* 2 *) Pos("Black", TRUE, -20, Middlegame, <<Mv("c", 4, FALSE)>>),
    (* 3 *) Pos("Black", FALSE, 0, Middlegame, <<Mv("d", 5, FALSE)>>),
    (* 4 *) Pos("White", FALSE, 50, Middlegame, <<Mv("e", 6, TRUE)>>),
    (* 5 *) Pos("White", FALSE, 0, Middlegame, <<Mv("f", 2, FALSE)>>),
    (* 6 *) Pos("Black", FALSE, 30, Middlegame, <<Mv("g", 7, TRUE), Mv("h", 8, FALSE)>>),
    (* 7 *) Pos("White", FALSE, -400, Middlegame, <<Mv("i", 8, TRUE)>>),
    (* 8 *) Pos("Black", FALSE, 200, Middlegame, <<Mv("j", 1, FALSE)>>),
    (* 9 *) Pos("Black", FALSE, 100, Middlegame,
                <<Mv("p", 10, TRUE), Mv("u", 14, FALSE), Mv("q", 11, FALSE),
                  Mv("r", 12, FALSE)>>),
    (* 10 *) Pos("White", FALSE, 0, BishopEnding, <<Mv("s", 13, FALSE)>>),
    (* 11 *) Pos("White", TRUE, 0, Middlegame, <<>>),
    (* 12 *) Pos("White", TRUE, 0, Middlegame, <<Mv("t", 13, TRUE)>>),
    (* 13 *) Pos("Black", FALSE, 0, Middlegame, <<>>),
    (* 14 *) Pos("White", FALSE, -100, Middlegame, <<Mv("v", 15, TRUE)>>),
    (* 15 *) Pos("Black", FALSE, -300, Middlegame, <<Mv("w", 13, FALSE)>>),
    (* 16 *) Pos("White", FALSE, 500, Middlegame, <<Mv("x", 17, FALSE), Mv("m", 19, FALSE)>>),
    (* 17 *) Pos("Black", FALSE, -500, Middlegame, <<Mv("y", 18, FALSE)>>),
    (* 18 *) Pos("White", FALSE, 500, Middlegame, <<Mv("z", 19, TRUE)>>),
    (* 19 *) Pos("Black", TRUE, 0, Middlegame, <<>>)
    >>

Positions == 1..Len(Game)

\* The positions a search is started from: positions with a legal move
\* (searching a terminal position is excluded by precondition).
Roots == {1, 9, 16}

\* MoveGen::new_legal(board), in generator order
LegalMoves(b) == Game[b].moves

RECURSIVE SelectCaptures(_)
SelectCaptures(ms) ==
    IF ms = <<>> THEN <<>>
    ELSE IF Head(ms).cap THEN <<Head(ms)>> \o SelectCaptures(Tail(ms))
         ELSE SelectCaptures(Tail(ms))

\* the legal moves under set_iterator_mask(color_combined(!side_to_move))
Captures(b) == SelectCaptures(LegalMoves(b))

\* *board.checkers() != EMPTY
InCheck(b) == Game[b].check

\* board.get_hash()
Hash(b) == b

\* evaluate_position: a position without legal moves is checkmate (the side
\* to move gets -INFINITY) or stalemate (0); otherwise the static score seen
\* from the side to move.
evaluate_position(b) ==
    IF LegalMoves(b) = <<>>
    THEN (IF InCheck(b) THEN -INFINITY ELSE 0)
    ELSE Game[b].eval

\* the result of is_insufficient_material on the piece counts m,
\* search.rs:445-472
InsufficientMaterial(m) ==
    IF \/ m.white_pawn_count > 0 \/ m.black_pawn_count > 0
       \/ m.white_rook_count > 0 \/ m.black_rook_count > 0
       \/ m.white_queen_count > 0 \/ m.black_queen_count > 0
    THEN FALSE
    ELSE IF m.white_bishop_count <= 1 /\ m.black_bishop_count = 0 THEN TRUE
    ELSE IF m.white_bishop_count = 0 /\ m.black_bishop_count <= 1 THEN TRUE
    ELSE IF m.white_knight_count <= 1 /\ m.black_knight_count = 0 THEN TRUE
    ELSE IF m.white_knight_count = 0 /\ m.black_knight_count <= 1 THEN TRUE
    ELSE FALSE

is_insufficient_material(b) == InsufficientMaterial(Game[b].material)

\* is_draw: only the insufficient-material test is live in the code.
is_draw(b) == is_insufficient_material(b)

(***************************************************************************)
(* SearchParams, GameTime and the time allocation.                         *)
(***************************************************************************)
GameTime(wt, bt, wi, bi, mtg) ==
    [white_time |-> wt, black_time |-> bt, white_increment |-> wi,
     black_increment |-> bi, moves_to_go |-> mtg]

NoGameTime == GameTime(NoneNum, NoneNum, NoneNum, NoneNum, NoneNum)

SearchParams(mode, move_time, game_time) ==
    [search_mode |-> mode, move_time |-> move_time, game_time |-> game_time]

\* Option::None of the worker's remembered params
NoParams == SearchParams("None", 0, NoGameTime)

\* The parameters the controller starts searches with (times in ms).
ParamSet ==
    { SearchParams("Infinite", 0, NoGameTime),
      SearchParams("MoveTime", 100, NoGameTime),
      SearchParams("GameTime", 0, GameTime(60000, 60000, NoneNum, NoneNum, NoneNum)),
      SearchParams("GameTime", 0, GameTime(1000, NoneNum, 0, NoneNum, 40)) }

\* search.rs:96-129: the budget of a GameTime cycle in microseconds; panic
\* is TRUE where the code panics: unwrap of an absent clock (99, 101) and a
\* Duration subtraction that would go below zero (125).
AllocatedTime(gt, is_white) ==
    LET clock == IF is_white THEN gt.white_time ELSE gt.black_time
        inc0 == IF is_white THEN gt.white_increment ELSE gt.black_increment
        increment == IF inc0 = NoneNum THEN 0 ELSE inc0
        mtg == gt.moves_to_go
        base_us == IF mtg = NoneNum THEN (clock * 1000) \div 20
                   ELSE IF mtg = 0 THEN clock * 1000
                   ELSE (clock * 1000) \div mtg
        slice_us == base_us + increment * 1000 - SafetyMarginMs * 1000
    IN  IF clock = NoneNum \/ slice_us < 0
        THEN [panic |-> TRUE, value |-> 0]
        ELSE [panic |-> FALSE, value |-> (slice_us * 4) \div 10]

\* search.rs:499-506: allocated.mul_f64(overshoot_factor), in microseconds
OvershootLimit(allocated) ==
    IF allocated > OkTimeUs THEN allocated * 2
    ELSE IF allocated > CriticalTimeUs THEN (allocated * 3) \div 2
    ELSE allocated

\* The outcomes the clock can give the time test of one poll. The elapsed
\* time is any value >= 0, so the test of search.rs:487 (elapsed > move_time)
\* can go either way, and the test of search.rs:506 (elapsed >= limit) can go
\* either way unless the limit is 0, when it is true.
TimeTrips(sp, allocated) ==
    IF sp.search_mode = "Infinite" THEN {FALSE}
    ELSE IF sp.search_mode = "MoveTime" THEN BOOLEAN
    ELSE IF OvershootLimit(allocated) = 0 THEN {TRUE}
    ELSE BOOLEAN

(***************************************************************************)
(* Commands and check_terminate.                                           *)
(***************************************************************************)
Start(sp) == [type |-> "Start", sp |-> sp]
Stop == [type |-> "Stop", sp |-> NoParams]
Quit == [type |-> "Quit", sp |-> NoParams]
Nothing == [type |-> "Nothing", sp |-> NoParams]

Commands == {Start(sp) : sp \in ParamSet} \cup {Stop, Quit, Nothing}

\* search.rs:475-511. q is the command channel, terminate the flag before
\* the call, trip the outcome of the time test. try_recv takes the head of
\* the channel if there is one; Start and Nothing are dropped.
check_terminate(q, terminate, sp, trip) ==
    LET cmd == IF q = <<>> THEN Nothing ELSE Head(q)
        rest == IF q = <<>> THEN q ELSE Tail(q)
        t1 == IF cmd.type = "Stop" THEN "Stop"
              ELSE IF cmd.type = "Quit" THEN "Quit"
              ELSE terminate
        t2 == IF sp.search_mode # "Infinite" /\ trip THEN "Stop" ELSE t1
    IN  [q |-> rest, terminate |-> t2, cmd |-> cmd]

(***************************************************************************)
(* SearchData and the transposition table (chess::CacheTable).             *)
(***************************************************************************)
\* SearchData::default() in a bucket that holds hash 0
EmptyBucket == [hash |-> 0, depth |-> 0, eval |-> 0, best_move |-> None, flag |-> "Nothing"]

\* CacheTable::new(1 << 21, SearchData::default())
NewTable == [i \in 0..(TTSize - 1) |-> EmptyBucket]

\* SearchData::create, search.rs:600-615
SearchDataCreate(depth, ply, flag, eval, best_move) ==
    LET v == IF eval > INFINITY \div 2 THEN eval + ply
             ELSE IF eval < -(INFINITY \div 2) THEN eval - ply
             ELSE eval
    IN  [depth |-> depth, eval |-> v, best_move |-> best_move, flag |-> flag]

\* SearchData::get, search.rs:617-648: some is FALSE for None
Miss == [some |-> FALSE, value |-> 0]
Hit(v) == [some |-> TRUE, value |-> v]

\* the entry accepted from an equal stored depth on
SearchDataGetAtLeast(e, depth, ply, alpha, beta) ==
    IF e.depth >= depth
    THEN CASE e.flag = "Exact" ->
                  Hit(IF e.eval > INFINITY \div 2 THEN e.eval - ply
                      ELSE IF e.eval < -(INFINITY \div 2) THEN e.eval + ply
                      ELSE e.eval)
           [] e.flag = "Alpha" -> (IF e.eval <= alpha THEN Hit(alpha) ELSE Miss)
           [] e.flag = "Beta" -> (IF e.eval >= beta THEN Hit(beta) ELSE Miss)
           [] OTHER -> Miss
    ELSE Miss

SearchDataGet(e, depth, ply, alpha, beta) ==
    IF e.depth > depth
    THEN CASE e.flag = "Exact" ->
                  Hit(IF e.eval > INFINITY \div 2 THEN e.eval - ply
                      ELSE IF e.eval < -(INFINITY \div 2) THEN e.eval + ply
                      ELSE e.eval)
           [] e.flag = "Alpha" -> (IF e.eval <= alpha THEN Hit(alpha) ELSE Miss)
           [] e.flag = "Beta" -> (IF e.eval >= beta THEN Hit(beta) ELSE Miss)
           [] OTHER -> Miss
    ELSE Miss

\* nothing stored
TTAddSkipped(t, hash, data) == t

\* CacheTable::add: the bucket of the hash is overwritten
TTAdd(t, hash, data) ==
    [t EXCEPT ![hash % TTSize] =
        [hash |-> hash, depth |-> data.depth, eval |-> data.eval,
         best_move |-> data.best_move, flag |-> data.flag]]

\* search.rs:222-228: transposition_table.get(hash) gives the bucket's entry
\* when the bucket holds this hash; then SearchData::get decides
TTProbe(t, hash, depth, ply, alpha, beta) ==
    LET e == t[hash % TTSize]
    IN  IF e.hash = hash THEN SearchDataGet(e, depth, ply, alpha, beta) ELSE Miss

(***************************************************************************)
(* State.                                                                  *)
(***************************************************************************)
VARIABLES
    controlQ,       \* the command channel (control_tx -> control_rx)
    nSent,          \* number of commands sent so far
    events,         \* the event channel (info_tx), everything sent so far
    board,          \* the shared Board behind the Mutex
    boardLock,      \* "free", "worker" (guard held by the worker), "poisoned"
    wpc,            \* the worker: "recv", "search", "exited", "panicked"
    halt, quit,     \* the worker loop's flags
    search_params,  \* the worker loop's remembered params (NoParams: None)
    lastCmd,        \* the command the worker loop's recv returned last
    cycle,          \* number of cycles started
    cycleStart,     \* the Board's value when the current cycle started
    polled,         \* command types check_terminate took in the current cycle
    lastPoll,       \* node count at the latest call of check_terminate in the cycle
    startTaken,     \* params of the Start check_terminate took last in the cycle
    quitTaken,      \* a Quit has been taken from the channel
    id,             \* locals of iterative_deepening
    ss,             \* SearchState
    tt,             \* the transposition table
    stack,          \* the active negamax / quiescence frames, root first
    ret,            \* what the root negamax call returned
    lastRet,        \* the last return of a frame: value, position and ply
    mat,            \* piece counts handed to the insufficient-material test
    matDraw,        \* what the test answered for them
    hist,           \* hashes of the positions a game has passed through
    halfmove,       \* plies since the last capture in that game
    drawSeen,       \* what is_draw answered for the game's latest position
    pieces,         \* the pieces of a position handed to the evaluation
    toMove,         \* its side to move
    evalScore,      \* what evaluate_position answered for it
    mirrorScore,    \* and for its colour-flipped mirror
    reader,         \* the input-reader thread: "reading", "exited", "panicked"
    linesRead,      \* number of input lines it has read
    reports,        \* the reports it has sent, in order
    stored,         \* a SearchData as created, with the arguments of create
    probed,         \* the arguments and the result of a get on it
    clocks,         \* a GameTime and the side to move handed to the allocation
    budget,         \* what the allocation made of them
    army,           \* the queens, rooks and minor pieces of a position
    phase           \* what is_endgame answered for them: TRUE is endgame

mainVars == <<controlQ, nSent, events, board, boardLock, wpc, halt, quit,
              search_params, lastCmd, cycle, cycleStart, polled, lastPoll, startTaken,
              quitTaken,
              id, ss, tt, stack, ret, lastRet>>

\* the inputs of the functions examined on their own
materialVars == <<mat, matDraw>>
gameVars == <<hist, halfmove, drawSeen>>
evalVars == <<pieces, toMove, evalScore, mirrorScore>>
uciVars == <<reader, linesRead, reports>>
probeVars == <<stored, probed>>
clockVars == <<clocks, budget>>
phaseVars == <<army, phase>>
laterVars == <<probeVars, clockVars, phaseVars>>
auxVars == <<materialVars, gameVars, evalVars, uciVars, laterVars>>

vars == <<mainVars, auxVars>>

controlVars == <<controlQ, nSent>>
workerVars == <<wpc, halt, quit, search_params, lastCmd, cycle, cycleStart>>
searchVars == <<id, ss, tt, stack, ret, lastRet>>

\* SearchState::new(), search.rs:560-570 (start_time: FALSE is None)
NewSearchState ==
    [seldepth |-> 0, start_time |-> FALSE, nodes |-> 0, depth |-> 0, ply |-> 0,
     terminate |-> "Nothing", allocated_time |-> 0]

\* search.rs:87-90
NewDriver ==
    [pc |-> "loop", depth |-> 1, best_move |-> None, root_pv |-> <<>>, stop |-> FALSE]

NoRet == [val |-> 0, pv |-> <<>>]

NoLastRet ==
    [fn |-> None, val |-> 0, exit |-> None, depth |-> 0, entry_board |-> 0,
     entry_ply |-> 0,
     exit_board |-> 0, exit_ply |-> 0, terminate |-> "Nothing"]

InitWorker ==
    /\ controlQ = <<>>
    /\ nSent = 0
    /\ events = <<>>
    /\ board \in Roots
    /\ boardLock = "free"
    /\ wpc = "recv"
    /\ halt = TRUE
    /\ quit = FALSE
    /\ search_params = NoParams
    /\ lastCmd = Nothing
    /\ cycle = 0
    /\ cycleStart = 0
    /\ polled = {}
    /\ lastPoll = NoneNum
    /\ startTaken = NoParams
    /\ quitTaken = FALSE
    /\ id = NewDriver
    /\ ss = NewSearchState
    /\ tt = NewTable
    /\ stack = <<>>
    /\ ret = NoRet
    /\ lastRet = NoLastRet

InitMaterial ==
    /\ mat = BareKings
    /\ matDraw = InsufficientMaterial(BareKings)

InitGame ==
    /\ hist = <<>>
    /\ halfmove = 0
    /\ drawSeen = FALSE

InitEval ==
    /\ pieces = {}
    /\ toMove = "White"
    /\ evalScore = 0
    /\ mirrorScore = 0

\* uci.rs:36-39
InitReader ==
    /\ reader = "reading"
    /\ linesRead = 0
    /\ reports = <<>>

\* no entry created and no probe made yet
NoStored ==
    [made |-> FALSE, depth |-> 0, ply |-> 0, flag |-> "Nothing", eval |-> 0,
     entry |-> [depth |-> 0, eval |-> 0, best_move |-> None, flag |-> "Nothing"]]

NoProbe ==
    [made |-> FALSE, depth |-> 0, ply |-> 0, alpha |-> 0, beta |-> 0,
     result |-> [some |-> FALSE, value |-> 0]]

InitProbe ==
    /\ stored = NoStored
    /\ probed = NoProbe

\* no clocks handed over yet
NoClocks == [set |-> FALSE, game_time |-> NoGameTime, is_white |-> TRUE]

NoBudget == [made |-> FALSE, panic |-> FALSE, value |-> 0]

InitClock ==
    /\ clocks = NoClocks
    /\ budget = NoBudget

\* no position handed to the phase detection yet
InitPhase ==
    /\ army = [set |-> FALSE, pieces |-> {}]
    /\ phase = TRUE

Init ==
    /\ InitWorker
    /\ InitMaterial
    /\ InitGame
    /\ InitEval
    /\ InitReader
    /\ InitProbe
    /\ InitClock
    /\ InitPhase

(***************************************************************************)
(* The controller's side: Search::send and the position updates.           *)
(***************************************************************************)
\* Search::send, search.rs:80-84. Once the worker thread is gone the
\* receiver is dropped and send(..).unwrap() fails in the sender.
Send(cmd) ==
    /\ UNCHANGED auxVars
    /\ nSent < MaxCmds
    /\ wpc \in {"recv", "search"}
    /\ controlQ' = Append(controlQ, cmd)
    /\ nSent' = nSent + 1
    /\ UNCHANGED <<events, board, boardLock, polled, lastPoll, startTaken, quitTaken>>
    /\ UNCHANGED workerVars
    /\ UNCHANGED searchVars

\* The Orchestrator's SetPosition / NewGame: lock the Board, replace it,
\* unlock. It blocks while the worker holds the lock.
SetPosition(r) ==
    /\ UNCHANGED auxVars
    /\ boardLock = "free"
    /\ board # r
    /\ board' = r
    /\ UNCHANGED <<events, boardLock, polled, lastPoll, startTaken, quitTaken>>
    /\ UNCHANGED controlVars
    /\ UNCHANGED workerVars
    /\ UNCHANGED searchVars

(***************************************************************************)
(* The worker loop, Search::init, search.rs:26-74.                         *)
(***************************************************************************)
Event(type, c, depth, cp, nodes, pv) ==
    [type |-> type, cycle |-> c, depth |-> depth, cp |-> cp, nodes |-> nodes, pv |-> pv]

\* the guard dropped at the end of the statement that took it
LockReleasedEarly == "free"

\* search.rs:49: the guard of board.lock() lives in the block of the cycle
LockDuringCycle == "worker"

\* search.rs:33-55 and 87-144: recv a command, update the flags and, when
\* neither halted nor quitting, set up a cycle: lock the Board, fresh table
\* and SearchState, the driver's locals, the GameTime budget and its
\* ExtraInfo event, the start time.
WorkerRecv ==
    /\ UNCHANGED auxVars
    /\ wpc = "recv"
    /\ controlQ # <<>>
    /\ LET cmd == Head(controlQ)
           sp1 == IF cmd.type = "Start" THEN cmd.sp ELSE search_params
           halt1 == IF cmd.type = "Start" THEN FALSE
                    ELSE IF cmd.type = "Stop" THEN TRUE ELSE halt
           quit1 == IF cmd.type = "Quit" THEN TRUE ELSE quit
           is_white == Game[board].stm = "White"
           alloc == IF sp1.search_mode = "GameTime"
                    THEN AllocatedTime(sp1.game_time, is_white)
                    ELSE [panic |-> FALSE, value |-> 0]
       IN  /\ controlQ' = Tail(controlQ)
           /\ lastCmd' = cmd
           /\ search_params' = sp1
           /\ halt' = halt1
           /\ quit' = quit1
           /\ quitTaken' = (quitTaken \/ cmd.type = "Quit")
           /\ IF ~halt1 /\ ~quit1
              THEN /\ boardLock = "free"
                   /\ cycle' = cycle + 1
                   /\ cycleStart' = board
                   /\ polled' = {}
                   /\ lastPoll' = NoneNum
                   /\ startTaken' = NoParams
                   /\ tt' = NewTable
                   /\ id' = NewDriver
                   /\ stack' = <<>>
                   /\ ret' = NoRet
                   /\ lastRet' = NoLastRet
                   /\ IF alloc.panic
                      THEN /\ wpc' = "panicked"
                           /\ boardLock' = "poisoned"
                           /\ ss' = NewSearchState
                           /\ events' = events
                      ELSE /\ wpc' = "search"
                           /\ boardLock' = LockDuringCycle
                           /\ ss' = [NewSearchState EXCEPT
                                        !.allocated_time = alloc.value,
                                        !.start_time = TRUE]
                           /\ events' =
                                IF sp1.search_mode = "GameTime"
                                THEN Append(events,
                                        Event("ExtraInfo", cycle + 1, 0, 0, 0, <<>>))
                                ELSE events
              ELSE /\ wpc' = IF quit1 THEN "exited" ELSE "recv"
                   /\ UNCHANGED <<events, boardLock, cycle, cycleStart, polled, lastPoll, startTaken>>
                   /\ UNCHANGED searchVars
    /\ UNCHANGED <<nSent, board>>

(***************************************************************************)
(* iterative_deepening, search.rs:146-183, and the end of the cycle in      *)
(* the worker loop, search.rs:57-72.                                       *)
(***************************************************************************)
Frame(fn, depth, alpha, beta, pv, b, ply) ==
    [fn |-> fn, pc |-> "enter", depth |-> depth, alpha |-> alpha, beta |-> beta,
     alpha0 |-> alpha,
     pv |-> pv, is_root |-> FALSE, is_check |-> FALSE, do_pvs |-> FALSE,
     best_eval_score |-> 0, best_move |-> None, hash_flag |-> "Alpha",
     legal_moves_found |-> 0, idx |-> 1, legal |-> NoMove, old_pos |-> 0,
     node_pv |-> <<>>, ret |-> 0, position_hash |-> 0,
     entry_board |-> b, entry_ply |-> ply]

\* search.rs:146-149: the loop test, and the root call of one iteration
IterationStart ==
    /\ UNCHANGED auxVars
    /\ wpc = "search"
    /\ id.pc = "loop"
    /\ id.depth < Ceiling /\ ~id.stop
    /\ ss' = [ss EXCEPT !.depth = id.depth]
    /\ stack' = <<Frame("negamax", id.depth, -INFINITY, INFINITY, id.root_pv,
                        board, ss.ply)>>
    /\ id' = [id EXCEPT !.pc = "after"]
    /\ UNCHANGED <<events, board, boardLock, polled, lastPoll, startTaken, quitTaken, tt, ret, lastRet>>
    /\ UNCHANGED controlVars
    /\ UNCHANGED workerVars

\* a Summary sent whatever the flag
SummaryAlways(terminate) == TRUE

\* search.rs:151: a Summary is sent when the flag is still unset
SummaryDue(terminate) == terminate = "Nothing"

\* the depth advanced by two
NextDepthSkips(depth) == depth + 2

\* search.rs:174
NextDepth(depth) == depth + 1

\* the best move taken from the pv of an aborted iteration too
BestMoveFromAnyIteration(due, root_pv, best_move) ==
    IF root_pv # <<>> THEN root_pv[1] ELSE best_move

\* search.rs:151-154: the best move follows the pv of a completed iteration
BestMoveAfter(due, root_pv, best_move) ==
    IF due /\ root_pv # <<>> THEN root_pv[1] ELSE best_move

\* search.rs:151-179: after the root call returned
IterationEnd ==
    /\ UNCHANGED auxVars
    /\ wpc = "search"
    /\ id.pc = "after"
    /\ stack = <<>>
    /\ LET root_pv == ret.pv
           due == SummaryDue(ss.terminate)
           bm == BestMoveAfter(due, root_pv, id.best_move)
       IN  /\ id' = [pc |-> "loop",
                     depth |-> IF due THEN NextDepth(id.depth) ELSE id.depth,
                     best_move |-> bm,
                     root_pv |-> root_pv,
                     stop |-> (id.stop \/ ss.terminate # "Nothing")]
           /\ events' = IF due
                        THEN Append(events, Event("Summary", cycle, id.depth, ret.val,
                                                  ss.nodes, root_pv))
                        ELSE events
    /\ UNCHANGED <<board, boardLock, polled, lastPoll, startTaken, quitTaken, ss, tt, stack, ret, lastRet>>
    /\ UNCHANGED controlVars
    /\ UNCHANGED workerVars

\* search.rs:182 and 57-72: the loop is left; best_move.unwrap() panics when
\* no iteration completed, else BestMove is sent, the terminate flag is
\* folded into halt / quit and the block ends, releasing the Board.
CycleEnd ==
    /\ UNCHANGED auxVars
    /\ wpc = "search"
    /\ id.pc = "loop"
    /\ ~(id.depth < Ceiling /\ ~id.stop)
    /\ IF id.best_move = None
       THEN /\ wpc' = "panicked"
            /\ boardLock' = "poisoned"
            /\ UNCHANGED <<events, halt, quit>>
       ELSE /\ events' = Append(events,
                           Event("BestMove", cycle, 0, 0, 0, <<id.best_move>>))
            /\ halt' = (halt \/ ss.terminate \in {"Stop", "Quit"})
            /\ quit' = (quit \/ ss.terminate = "Quit")
            /\ wpc' = IF quit' THEN "exited" ELSE "recv"
            /\ boardLock' = "free"
    /\ id' = [id EXCEPT !.pc = "done"]
    /\ UNCHANGED <<board, polled, lastPoll, startTaken, quitTaken, search_params, lastCmd, cycle,
                   cycleStart, ss, tt, stack, ret, lastRet>>
    /\ UNCHANGED controlVars

(***************************************************************************)
(* negamax and quiescence, search.rs:185-392, one frame per call.          *)
(***************************************************************************)
Top == stack[Len(stack)]

Running(fn, pc) ==
    /\ wpc = "search"
    /\ stack # <<>>
    /\ Top.fn = fn
    /\ Top.pc = pc

\* The top frame f returns val; b and s are the Board and the SearchState at
\* that moment and exit names the return statement taken. The caller
\* receives the value and the pv written by f.
Deliver(f, val, b, s, exit) ==
    LET rest == SubSeq(stack, 1, Len(stack) - 1)
    IN  /\ stack' = IF rest = <<>> THEN rest
                    ELSE [rest EXCEPT ![Len(rest)].ret = val,
                                      ![Len(rest)].node_pv = f.pv]
        /\ ret' = IF rest = <<>> THEN [val |-> val, pv |-> f.pv] ELSE ret
        /\ lastRet' = [fn |-> f.fn, val |-> val, exit |-> exit, depth |-> f.depth,
                       entry_board |-> f.entry_board, entry_ply |-> f.entry_ply,
                       exit_board |-> b, exit_ply |-> s.ply,
                       terminate |-> s.terminate]
        /\ board' = b
        /\ ss' = s

\* The top frame becomes f and stays on top.
Continue(f, b, s) ==
    /\ stack' = [stack EXCEPT ![Len(stack)] = f]
    /\ board' = b
    /\ ss' = s
    /\ UNCHANGED <<ret, lastRet>>

\* The top frame becomes f and calls child.
Call(f, child, b, s) ==
    /\ stack' = Append([stack EXCEPT ![Len(stack)] = f], child)
    /\ board' = b
    /\ ss' = s
    /\ UNCHANGED <<ret, lastRet>>

\* the poll made at every other multiple of the interval
PollDueHalf(n) == n % (2 * PollInterval) = 0

\* The poll of search.rs:195-197 and 332-334 at node count n.
PollDue(n) == n % PollInterval = 0

\* the node counter running backwards
CountNodeBackwards(nodes) == nodes - 1

\* search.rs:218 and 330: refs.search_state.nodes += 1
CountNode(nodes) == nodes + 1

\* the ply never taken to have reached the ceiling
PlyLimitNever(ply) == FALSE

\* search.rs:203 and 340: refs.search_state.ply >= 255
PlyLimitReached(ply) == ply >= Ceiling

\* no call taken for the root
IsRootNever(ply) == FALSE

\* search.rs:192: the call at ply 0 is the root
IsRoot(ply) == ply = 0

\* search.rs:192-228: entry of negamax up to the move loop
NegamaxEnter ==
    /\ UNCHANGED auxVars
    /\ Running("negamax", "enter")
    /\ \E trip \in TimeTrips(search_params, ss.allocated_time) :
        LET f == Top
            is_root == IsRoot(ss.ply)
            due == PollDue(ss.nodes)
            ct == IF due
                  THEN check_terminate(controlQ, ss.terminate, search_params, trip)
                  ELSE [q |-> controlQ, terminate |-> ss.terminate, cmd |-> Nothing]
            s1 == [ss EXCEPT !.terminate = ct.terminate]
            is_check == InCheck(board)
            depth == IF is_check THEN f.depth + 1 ELSE f.depth
            s2 == [s1 EXCEPT !.nodes = CountNode(s1.nodes)]
            probe == TTProbe(tt, Hash(board), depth, s2.ply, f.alpha, f.beta)
        IN  /\ controlQ' = ct.q
            /\ polled' = IF due /\ controlQ # <<>>
                         THEN polled \cup {ct.cmd.type} ELSE polled
            /\ lastPoll' = IF due THEN ss.nodes ELSE lastPoll
            /\ startTaken' = IF due /\ ct.cmd.type = "Start"
                             THEN ct.cmd.sp ELSE startTaken
            /\ quitTaken' = (quitTaken \/ (due /\ ct.cmd.type = "Quit"))
            /\ IF s1.terminate # "Nothing" THEN Deliver(f, 0, board, s1, "cancel")
               ELSE IF PlyLimitReached(s1.ply)
                    THEN Deliver(f, evaluate_position(board), board, s1, "ply_limit")
               ELSE IF depth <= 0
                    THEN Continue([f EXCEPT !.fn = "quiescence"], board, s1)
               ELSE IF probe.some /\ ~is_root
                    THEN Deliver(f, probe.value, board, s2, "tt_hit")
               ELSE Continue([f EXCEPT !.pc = "loop", !.depth = depth,
                                       !.is_root = is_root, !.is_check = is_check,
                                       !.position_hash = Hash(board),
                                       !.best_eval_score = -INFINITY - 1,
                                       !.best_move = None, !.hash_flag = "Alpha",
                                       !.legal_moves_found = 0, !.do_pvs = FALSE,
                                       !.idx = 1],
                             board, s2)
    /\ UNCHANGED <<nSent, events, boardLock, id, tt>>
    /\ UNCHANGED workerVars

\* the Board left as the child left it
UndoMoveSkipped(f, b) == b

\* search.rs:266 and 375: the move is undone by restoring the saved Board
UndoMove(f, b) == f.old_pos

\* search.rs:264-299: after the child's score is known: undo the move, track
\* the best move, cut off on beta (storing a Beta entry), raise alpha.
\* s is the SearchState and t the table before this point.
NegamaxPost(f, eval_score, b, s, t) ==
    LET s1 == [s EXCEPT !.ply = s.ply - 1]
        b1 == UndoMove(f, b)
        better == eval_score > f.best_eval_score
        bes == IF better THEN eval_score ELSE f.best_eval_score
        bm == IF better THEN f.legal.mv ELSE f.best_move
        f1 == [f EXCEPT !.best_eval_score = bes, !.best_move = bm,
                        !.idx = f.idx + 1, !.pc = "loop"]
    IN  IF eval_score >= f.beta
        THEN /\ tt' = TTAdd(t, f.position_hash,
                            SearchDataCreate(f.depth, s1.ply, "Beta", f.beta, bm))
             /\ Deliver(f1, f.beta, b1, s1, "beta")
        ELSE /\ tt' = t
             /\ IF eval_score > f.alpha
                THEN Continue([f1 EXCEPT !.alpha = eval_score,
                                         !.hash_flag = "Exact",
                                         !.do_pvs = TRUE,
                                         !.pv = <<f.legal.mv>> \o f.node_pv],
                              b1, s1)
                ELSE Continue(f1, b1, s1)

\* every mate scored alike
MatedScoreFlat(ply) == -INFINITY

\* search.rs:304: the score of the side to move when it is checkmated at ply
MatedScore(ply) == -INFINITY + ply

\* search.rs:237-262 and 302-321: the head of the move loop: with no move
\* left the node is scored (mate, stalemate, or alpha with a table entry);
\* otherwise the next move is made and, unless the new position is a draw,
\* the child is searched (null window first once alpha was raised).
NegamaxLoop ==
    /\ UNCHANGED auxVars
    /\ Running("negamax", "loop")
    /\ LET f == Top
           moves == LegalMoves(board)
       IN  IF f.idx > Len(moves)
           THEN IF f.legal_moves_found = 0
                THEN /\ tt' = tt
                     /\ Deliver(f, IF f.is_check THEN MatedScore(ss.ply) ELSE 0,
                                board, ss, "no_moves")
                ELSE /\ tt' = TTAdd(tt, f.position_hash,
                                    SearchDataCreate(f.depth, ss.ply, f.hash_flag,
                                                     f.alpha, f.best_move))
                     /\ Deliver(f, f.alpha, board, ss, "normal")
           ELSE LET legal == moves[f.idx]
                    b1 == legal.to
                    ply1 == ss.ply + 1
                    s1 == [ss EXCEPT !.ply = ply1,
                                     !.seldepth = IF ply1 > ss.seldepth
                                                  THEN ply1 ELSE ss.seldepth]
                    f1 == [f EXCEPT !.legal = legal, !.old_pos = board,
                                    !.legal_moves_found = f.legal_moves_found + 1,
                                    !.node_pv = <<>>]
                IN  IF is_draw(b1)
                    THEN NegamaxPost(f1, 0, b1, s1, tt)
                    ELSE /\ tt' = tt
                         /\ IF f.do_pvs
                            THEN Call([f1 EXCEPT !.pc = "after_null"],
                                      Frame("negamax", f.depth - 1, -f.alpha - 1,
                                            -f.alpha, <<>>, b1, ply1),
                                      b1, s1)
                            ELSE Call([f1 EXCEPT !.pc = "after_full"],
                                      Frame("negamax", f.depth - 1, -f.beta,
                                            -f.alpha, <<>>, b1, ply1),
                                      b1, s1)
    /\ UNCHANGED <<events, boardLock, polled, lastPoll, startTaken, quitTaken, id>>
    /\ UNCHANGED controlVars
    /\ UNCHANGED workerVars

\* search.rs:254-258: the null-window search returned; a score strictly
\* inside the window is searched again with the full window
NegamaxAfterNull ==
    /\ UNCHANGED auxVars
    /\ Running("negamax", "after_null")
    /\ LET f == Top
           eval_score == -f.ret
       IN  IF eval_score > f.alpha /\ eval_score < f.beta
           THEN /\ tt' = tt
                /\ Call([f EXCEPT !.pc = "after_full"],
                        Frame("negamax", f.depth - 1, -f.beta, -f.alpha,
                              f.node_pv, board, ss.ply),
                        board, ss)
           ELSE NegamaxPost(f, eval_score, board, ss, tt)
    /\ UNCHANGED <<events, boardLock, polled, lastPoll, startTaken, quitTaken, id>>
    /\ UNCHANGED controlVars
    /\ UNCHANGED workerVars

\* search.rs:257, 260: the full-window search returned
NegamaxAfterFull ==
    /\ UNCHANGED auxVars
    /\ Running("negamax", "after_full")
    /\ NegamaxPost(Top, -Top.ret, board, ss, tt)
    /\ UNCHANGED <<events, boardLock, polled, lastPoll, startTaken, quitTaken, id>>
    /\ UNCHANGED controlVars
    /\ UNCHANGED workerVars

\* search.rs:330-352: entry of quiescence up to the capture loop
QuiescenceEnter ==
    /\ UNCHANGED auxVars
    /\ Running("quiescence", "enter")
    /\ \E trip \in TimeTrips(search_params, ss.allocated_time) :
        LET f == Top
            s0 == [ss EXCEPT !.nodes = CountNode(ss.nodes)]
            due == PollDue(s0.nodes)
            ct == IF due
                  THEN check_terminate(controlQ, ss.terminate, search_params, trip)
                  ELSE [q |-> controlQ, terminate |-> ss.terminate, cmd |-> Nothing]
            s1 == [s0 EXCEPT !.terminate = ct.terminate]
            eval_score == evaluate_position(board)
        IN  /\ controlQ' = ct.q
            /\ polled' = IF due /\ controlQ # <<>>
                         THEN polled \cup {ct.cmd.type} ELSE polled
            /\ lastPoll' = IF due THEN s0.nodes ELSE lastPoll
            /\ startTaken' = IF due /\ ct.cmd.type = "Start"
                             THEN ct.cmd.sp ELSE startTaken
            /\ quitTaken' = (quitTaken \/ (due /\ ct.cmd.type = "Quit"))
            /\ IF s1.terminate # "Nothing" THEN Deliver(f, 0, board, s1, "cancel")
               ELSE IF PlyLimitReached(s1.ply)
                    THEN Deliver(f, eval_score, board, s1, "ply_limit")
               ELSE IF eval_score >= f.beta
                    THEN Deliver(f, f.beta, board, s1, "stand_pat")
               ELSE Continue([f EXCEPT !.pc = "loop", !.idx = 1,
                                       !.alpha = IF eval_score > f.alpha
                                                 THEN eval_score ELSE f.alpha],
                             board, s1)
    /\ UNCHANGED <<nSent, events, boardLock, id, tt>>
    /\ UNCHANGED workerVars

\* search.rs:359-371 and 390: the head of the capture loop
QuiescenceLoop ==
    /\ UNCHANGED auxVars
    /\ Running("quiescence", "loop")
    /\ LET f == Top
           moves == Captures(board)
       IN  IF f.idx > Len(moves)
           THEN Deliver(f, f.alpha, board, ss, "normal")
           ELSE LET legal == moves[f.idx]
                    b1 == legal.to
                    ply1 == ss.ply + 1
                    s1 == [ss EXCEPT !.ply = ply1,
                                     !.seldepth = IF ply1 > ss.seldepth
                                                  THEN ply1 ELSE ss.seldepth]
                IN  Call([f EXCEPT !.legal = legal, !.old_pos = board,
                                   !.node_pv = <<>>, !.pc = "after"],
                         Frame("quiescence", 0, -f.beta, -f.alpha, <<>>, b1, ply1),
                         b1, s1)
    /\ UNCHANGED <<events, boardLock, polled, lastPoll, startTaken, quitTaken, id, tt>>
    /\ UNCHANGED controlVars
    /\ UNCHANGED workerVars

\* search.rs:371-387: the child returned: undo the move, cut off or raise alpha
QuiescenceAfter ==
    /\ UNCHANGED auxVars
    /\ Running("quiescence", "after")
    /\ LET f == Top
           score == -f.ret
           s1 == [ss EXCEPT !.ply = ss.ply - 1]
           b1 == UndoMove(f, board)
           f1 == [f EXCEPT !.idx = f.idx + 1, !.pc = "loop"]
       IN  IF score >= f.beta THEN Deliver(f1, f.beta, b1, s1, "beta")
           ELSE IF score > f.alpha
                THEN Continue([f1 EXCEPT !.alpha = score,
                                         !.pv = <<f.legal.mv>> \o f.node_pv],
                              b1, s1)
                ELSE Continue(f1, b1, s1)
    /\ UNCHANGED <<events, boardLock, polled, lastPoll, startTaken, quitTaken, id, tt>>
    /\ UNCHANGED controlVars
    /\ UNCHANGED workerVars

(***************************************************************************)
(* The same search with the transposition table disabled (every probe a    *)
(* miss), as a function of the position: search.rs:185-392 without lines    *)
(* 220-228, 275-284 and 310-319, and without cancellation.                 *)
(***************************************************************************)
RECURSIVE RefNegamax(_, _, _, _, _, _)
RECURSIVE RefMoveLoop(_, _, _, _, _, _, _, _, _)
RECURSIVE RefQuiescence(_, _, _, _, _)
RECURSIVE RefCaptureLoop(_, _, _, _, _, _)

\* search.rs:359-390
RefCaptureLoop(b, ply, i, alpha, beta, pv) ==
    LET moves == Captures(b)
    IN  IF i > Len(moves) THEN [val |-> alpha, pv |-> pv]
        ELSE LET legal == moves[i]
                 c == RefQuiescence(legal.to, ply + 1, -beta, -alpha, <<>>)
                 score == -c.val
             IN  IF score >= beta THEN [val |-> beta, pv |-> pv]
                 ELSE IF score > alpha
                      THEN RefCaptureLoop(b, ply, i + 1, score, beta,
                                          <<legal.mv>> \o c.pv)
                      ELSE RefCaptureLoop(b, ply, i + 1, alpha, beta, pv)

\* search.rs:340-352
RefQuiescence(b, ply, alpha, beta, pv) ==
    LET eval_score == evaluate_position(b)
    IN  IF ply >= Ceiling THEN [val |-> eval_score, pv |-> pv]
        ELSE IF eval_score >= beta THEN [val |-> beta, pv |-> pv]
        ELSE RefCaptureLoop(b, ply, 1,
                            IF eval_score > alpha THEN eval_score ELSE alpha,
                            beta, pv)

\* search.rs:237-308 and 321
RefMoveLoop(b, ply, depth, is_check, i, alpha, beta, do_pvs, pv) ==
    LET moves == LegalMoves(b)
    IN  IF i > Len(moves)
        THEN IF Len(moves) = 0
             THEN [val |-> IF is_check THEN -INFINITY + ply ELSE 0, pv |-> pv]
             ELSE [val |-> alpha, pv |-> pv]
        ELSE LET legal == moves[i]
                 b1 == legal.to
                 null == RefNegamax(b1, ply + 1, depth - 1, -alpha - 1, -alpha, <<>>)
                 r == IF is_draw(b1) THEN [val |-> 0, pv |-> <<>>]
                      ELSE IF do_pvs /\ ~(-null.val > alpha /\ -null.val < beta)
                           THEN null
                      ELSE RefNegamax(b1, ply + 1, depth - 1, -beta, -alpha,
                                      IF do_pvs THEN null.pv ELSE <<>>)
                 eval_score == IF is_draw(b1) THEN 0 ELSE -r.val
             IN  IF eval_score >= beta THEN [val |-> beta, pv |-> pv]
                 ELSE IF eval_score > alpha
                      THEN RefMoveLoop(b, ply, depth, is_check, i + 1, eval_score,
                                       beta, TRUE, <<legal.mv>> \o r.pv)
                      ELSE RefMoveLoop(b, ply, depth, is_check, i + 1, alpha,
                                       beta, do_pvs, pv)

\* search.rs:203-216
RefNegamax(b, ply, depth0, alpha, beta, pv) ==
    LET is_check == InCheck(b)
        depth == IF is_check THEN depth0 + 1 ELSE depth0
    IN  IF ply >= Ceiling THEN [val |-> evaluate_position(b), pv |-> pv]
        ELSE IF depth <= 0 THEN RefQuiescence(b, ply, alpha, beta, pv)
        ELSE RefMoveLoop(b, ply, depth, is_check, 1, alpha, beta, FALSE, pv)

\* search.rs:146-149: the root call of iteration d; root_pv is carried over
\* from the iteration before
RECURSIVE RefIteration(_, _)
RefIteration(root, d) ==
    IF d = 0 THEN [val |-> 0, pv |-> <<>>]
    ELSE RefNegamax(root, 0, d, -INFINITY, INFINITY, RefIteration(root, d - 1).pv)

(***************************************************************************)
(* The specification.                                                      *)
(***************************************************************************)
Worker ==
    \/ WorkerRecv
    \/ IterationStart
    \/ IterationEnd
    \/ CycleEnd
    \/ NegamaxEnter
    \/ NegamaxLoop
    \/ NegamaxAfterNull
    \/ NegamaxAfterFull
    \/ QuiescenceEnter
    \/ QuiescenceLoop
    \/ QuiescenceAfter

Next ==
    \/ \E cmd \in Commands : Send(cmd)
    \/ \E r \in Roots : SetPosition(r)
    \/ Worker

Spec == Init /\ [][Next]_vars

\* The worker is an OS thread of its own: it keeps being scheduled.
FairSpec == Spec /\ WF_vars(Worker)

(***************************************************************************)
(* is_insufficient_material on its own, search.rs:399-473: the material on  *)
(* the Board changes one piece at a time and the test is applied to it.     *)
(***************************************************************************)
MinorCounts ==
    {"white_bishop_count", "black_bishop_count",
     "white_knight_count", "black_knight_count"}

HeavyCounts ==
    {"white_pawn_count", "black_pawn_count", "white_rook_count",
     "black_rook_count", "white_queen_count", "black_queen_count"}

MostOf(k) == IF k \in MinorCounts THEN MaxMinor ELSE MaxHeavy

\* a piece appears (a promotion, or a position set up with one piece more)
\* and the test is applied
PlacePiece ==
    /\ \E k \in MinorCounts \cup HeavyCounts :
          /\ mat[k] < MostOf(k)
          /\ mat' = [mat EXCEPT ![k] = @ + 1]
    /\ matDraw' = InsufficientMaterial(mat')
    /\ UNCHANGED mainVars
    /\ UNCHANGED gameVars
    /\ UNCHANGED evalVars
    /\ UNCHANGED uciVars
    /\ UNCHANGED laterVars

\* a piece is captured and the test is applied
RemovePiece ==
    /\ \E k \in MinorCounts \cup HeavyCounts :
          /\ mat[k] > 0
          /\ mat' = [mat EXCEPT ![k] = @ - 1]
    /\ matDraw' = InsufficientMaterial(mat')
    /\ UNCHANGED mainVars
    /\ UNCHANGED gameVars
    /\ UNCHANGED evalVars
    /\ UNCHANGED uciVars
    /\ UNCHANGED laterVars

MaterialNext ==
    \/ PlacePiece
    \/ RemovePiece

MaterialSpec == Init /\ [][MaterialNext]_vars

(***************************************************************************)
(* is_draw on its own, search.rs:394-397: a game is played out move by     *)
(* move on the Board, as negamax does along a line (search.rs:238-252),    *)
(* and is_draw is applied to the position after each move. The history of  *)
(* hashes and the count of plies since the last capture are kept beside    *)
(* the Board: the code records neither.                                    *)
(***************************************************************************)
\* the game starts from the position on the Board
GameStart ==
    /\ hist = <<>>
    /\ hist' = <<Hash(board)>>
    /\ halfmove' = 0
    /\ drawSeen' = is_draw(board)
    /\ UNCHANGED mainVars
    /\ UNCHANGED materialVars
    /\ UNCHANGED evalVars
    /\ UNCHANGED uciVars
    /\ UNCHANGED laterVars

\* search.rs:238-252: a legal move is made and is_draw is asked
GameMove ==
    /\ hist # <<>>
    /\ Len(hist) <= MaxPlies
    /\ \E i \in DOMAIN LegalMoves(board) :
          LET legal == LegalMoves(board)[i]
          IN  /\ board' = legal.to
              /\ hist' = Append(hist, Hash(legal.to))
              /\ halfmove' = IF legal.cap THEN 0 ELSE halfmove + 1
              /\ drawSeen' = is_draw(legal.to)
    /\ UNCHANGED <<controlQ, nSent, events, boardLock, polled, lastPoll, startTaken, quitTaken>>
    /\ UNCHANGED workerVars
    /\ UNCHANGED searchVars
    /\ UNCHANGED materialVars
    /\ UNCHANGED evalVars
    /\ UNCHANGED uciVars
    /\ UNCHANGED laterVars

DrawNext ==
    \/ GameStart
    \/ GameMove

DrawSpec == Init /\ [][DrawNext]_vars

(***************************************************************************)
(* evaluate_position on its own, evaluation.rs:5-168, for an ongoing       *)
(* position given by its pieces: a piece is a kind, a colour and a square   *)
(* 0..63 (a1 = 0, h8 = 63).                                                *)
(***************************************************************************)
\* evaluation.rs:73
PAWN_TABLE ==
    <<
    0, 0, 0, 0, 0, 0, 0, 0,
    50, 50, 50, 50, 50, 50, 50, 50,
    10, 10, 20, 30, 30, 20, 10, 10,
    5, 5, 10, 25, 25, 10, 5, 5,
    0, 0, 0, 20, 20, 0, 0, 0,
    5, -5, -10, 0, 0, -10, -5, 5,
    5, 10, 10, -20, -20, 10, 10, 5,
    0, 0, 0, 0, 0, 0, 0, 0
    >>

\* evaluation.rs:79
KNIGHT_TABLE ==
    <<
    -50, -40, -30, -30, -30, -30, -40, -50,
    -40, -20, 0, 0, 0, 0, -20, -40,
    -30, 0, 10, 15, 15, 10, 0, -30,
    -30, 5, 15, 20, 20, 15, 5, -30,
    -30, 0, 15, 20, 20, 15, 0, -30,
    -30, 5, 10, 15, 15, 10, 5, -30,
    -40, -20, 0, 5, 5, 0, -20, -40,
    -50, -40, -30, -30, -30, -30, -40, -50
    >>

\* evaluation.rs:85
BISHOP_TABLE ==
    <<
    -20, -10, -10, -10, -10, -10, -10, -20,
    -10, 0, 0, 0, 0, 0, 0, -10,
    -10, 0, 5, 10, 10, 5, 0, -10,
    -10, 5, 5, 10, 10, 5, 5, -10,
    -10, 0, 10, 10, 10, 10, 0, -10,
    -10, 10, 10, 10, 10, 10, 10, -10,
    -10, 5, 0, 0, 0, 0, 5, -10,
    -20, -10, -10, -10, -10, -10, -10, -20
    >>

\* evaluation.rs:91
ROOK_TABLE ==
    <<
    0, 0, 0, 0, 0, 0, 0, 0,
    5, 10, 10, 10, 10, 10, 10, 5,
    -5, 0, 0, 0, 0, 0, 0, -5,
    -5, 0, 0, 0, 0, 0, 0, -5,
    -5, 0, 0, 0, 0, 0, 0, -5,
    -5, 0, 0, 0, 0, 0, 0, -5,
    -5, 0, 0, 0, 0, 0, 0, -5,
    0, 0, 0, 5, 5, 0, 0, 0
    >>

\* evaluation.rs:97
QUEEN_TABLE ==
    <<
    -20, -10, -10, -5, -5, -10, -10, -20,
    -10, 0, 0, 0, 0, 0, 0, -10,
    -10, 0, 5, 5, 5, 5, 0, -10,
    -5, 0, 5, 5, 5, 5, 0, -5,
    0, 0, 5, 5, 5, 5, 0, -5,
    -10, 5, 5, 5, 5, 5, 0, -10,
    -10, 0, 5, 0, 0, 0, 0, -10,
    -20, -10, -10, -5, -5, -10, -10, -20
    >>

\* evaluation.rs:103
KING_TABLE ==
    <<
    -30, -40, -40, -50, -50, -40, -40, -30,
    -30, -40, -40, -50, -50, -40, -40, -30,
    -30, -40, -40, -50, -50, -40, -40, -30,
    -30, -40, -40, -50, -50, -40, -40, -30,
    -20, -30, -30, -40, -40, -30, -30, -20,
    -10, -20, -20, -20, -20, -20, -20, -10,
    20, 20, 0, 0, 0, 0, 20, 20,
    20, 30, 10, 0, 0, 10, 30, 20
    >>

\* evaluation.rs:110
KING_TABLE_ENDGAME ==
    <<
    -50, -40, -30, -20, -20, -30, -40, -50,
    -30, -20, -10, 0, 0, -10, -20, -30,
    -30, -10, 20, 30, 30, 20, -10, -30,
    -30, -10, 30, 40, 40, 30, -10, -30,
    -30, -10, 30, 40, 40, 30, -10, -30,
    -30, -10, 20, 30, 30, 20, -10, -30,
    -30, -30, 0, 0, 0, 0, -30, -30,
    -50, -30, -30, -30, -30, -30, -30, -50
    >>

PieceKinds == {"Pawn", "Knight", "Bishop", "Rook", "Queen", "King"}
Colours == {"White", "Black"}
Squares == 0..63

Piece(kind, colour, square) == [kind |-> kind, colour |-> colour, square |-> square]

\* evaluation.rs:17-24
PieceValue(kind) ==
    CASE kind = "Pawn" -> 100
      [] kind = "Knight" -> 320
      [] kind = "Bishop" -> 330
      [] kind = "Rook" -> 500
      [] kind = "Queen" -> 900
      [] kind = "King" -> 20000

\* the number of pieces of ps of the given kinds and colour
CountOf(ps, kinds, colour) ==
    Cardinality({q \in ps : q.kind \in kinds /\ q.colour = colour})

\* is_endgame, evaluation.rs:117-168
is_endgame(ps) ==
    IF CountOf(ps, {"Queen"}, "White") + CountOf(ps, {"Queen"}, "Black") = 0
    THEN TRUE
    ELSE LET side_endgame(c) ==
                 IF CountOf(ps, {"Queen"}, c) = 1
                 THEN /\ CountOf(ps, {"Knight", "Bishop"}, c) <= 1
                      /\ CountOf(ps, {"Rook"}, c) = 0
                 ELSE FALSE
         IN  side_endgame("White") /\ side_endgame("Black")

\* piece_square, evaluation.rs:49-71
piece_square(kind, colour, square, endgame) ==
    LET table == CASE kind = "Pawn" -> PAWN_TABLE
                   [] kind = "Knight" -> KNIGHT_TABLE
                   [] kind = "Bishop" -> BISHOP_TABLE
                   [] kind = "Rook" -> ROOK_TABLE
                   [] kind = "Queen" -> QUEEN_TABLE
                   [] kind = "King" ->
                          (IF endgame THEN KING_TABLE_ENDGAME ELSE KING_TABLE)
        index == IF colour = "White" THEN 63 - square ELSE square
    IN  table[index + 1]

\* evaluation.rs:17-30: what one piece adds to the score
PieceScore(q, endgame) ==
    LET piece_score == PieceValue(q.kind)
                         + piece_square(q.kind, q.colour, q.square, endgame)
    IN  IF q.colour = "White" THEN piece_score ELSE -piece_score

RECURSIVE SumScores(_, _)
SumScores(ps, endgame) ==
    IF ps = {} THEN 0
    ELSE LET q == CHOOSE x \in ps : TRUE
         IN  PieceScore(q, endgame) + SumScores(ps \ {q}, endgame)

\* evaluate_position for BoardStatus::Ongoing, evaluation.rs:7-32 and 43-46
EvaluateOngoing(ps, stm) ==
    LET score == SumScores(ps, is_endgame(ps))
    IN  IF stm = "White" THEN score ELSE -score

\* The colour-flipped mirror: every piece changes colour and moves to the
\* same file on the mirrored rank; the side to move stays.
Mirror(ps) ==
    {Piece(q.kind, IF q.colour = "White" THEN "Black" ELSE "White",
           ((7 - (q.square \div 8)) * 8) + (q.square % 8)) : q \in ps}

\* a piece is put on an empty square and the position and its mirror are
\* evaluated
PutPiece ==
    /\ Cardinality(pieces) < MaxPieces
    /\ \E k \in PieceKinds, c \in Colours, sq \in Squares :
          /\ \A q \in pieces : q.square # sq
          /\ pieces' = pieces \cup {Piece(k, c, sq)}
    /\ evalScore' = EvaluateOngoing(pieces', toMove)
    /\ mirrorScore' = EvaluateOngoing(Mirror(pieces'), toMove)
    /\ UNCHANGED toMove
    /\ UNCHANGED mainVars
    /\ UNCHANGED materialVars
    /\ UNCHANGED gameVars
    /\ UNCHANGED uciVars
    /\ UNCHANGED laterVars

\* the move passes to the other side
PassMove ==
    /\ pieces # {}
    /\ toMove' = IF toMove = "White" THEN "Black" ELSE "White"
    /\ evalScore' = EvaluateOngoing(pieces, toMove')
    /\ mirrorScore' = EvaluateOngoing(Mirror(pieces), toMove')
    /\ UNCHANGED pieces
    /\ UNCHANGED mainVars
    /\ UNCHANGED materialVars
    /\ UNCHANGED gameVars
    /\ UNCHANGED uciVars
    /\ UNCHANGED laterVars

EvalNext ==
    \/ PutPiece
    \/ PassMove

EvalSpec == Init /\ [][EvalNext]_vars

(***************************************************************************)
(* The input-reader thread, Uci::report_thread, uci.rs:35-123. A line of   *)
(* input is given by the message vampirc_uci::parse makes of it; text the   *)
(* parser does not understand, and every message the match has no arm for,  *)
(* is "Other".                                                             *)
(***************************************************************************)
UciMessages ==
    {"Uci", "Debug", "IsReady", "PositionStartpos", "PositionFen", "UciNewGame",
     "Stop", "Quit", "GoPonder", "GoInfinite", "GoTimeLeft", "GoMoveTime",
     "GoNoTimeControl", "Other"}

\* uci.rs:47-113: the report a message is mapped to; "todo" is todo!()
ReportOf(msg) ==
    CASE msg = "Uci" -> "Uci"
      [] msg = "Debug" -> "Debug"
      [] msg = "IsReady" -> "IsReady"
      [] msg \in {"PositionStartpos", "PositionFen"} -> "Position"
      [] msg = "UciNewGame" -> "UciNewGame"
      [] msg = "Stop" -> "Stop"
      [] msg = "Quit" -> "Quit"
      [] msg = "GoPonder" -> "todo"
      [] msg = "GoInfinite" -> "GoInfinite"
      [] msg = "GoTimeLeft" -> "GoGameTime"
      [] msg = "GoMoveTime" -> "GoMoveTime"
      [] msg = "GoNoTimeControl" -> "todo"
      [] OTHER -> "Unknown"

\* uci.rs:41-119: one turn of the loop: read a line, parse it, map the
\* message to a report and send it; Quit ends the loop after the send.
ReadLine ==
    /\ reader = "reading"
    /\ linesRead < MaxLines
    /\ \E msg \in UciMessages :
          LET report == ReportOf(msg)
          IN  /\ linesRead' = linesRead + 1
              /\ IF report = "todo"
                 THEN /\ reader' = "panicked"
                      /\ reports' = reports
                 ELSE /\ reports' = Append(reports, report)
                      /\ reader' = IF msg = "Quit" THEN "exited" ELSE "reading"
    /\ UNCHANGED mainVars
    /\ UNCHANGED materialVars
    /\ UNCHANGED gameVars
    /\ UNCHANGED evalVars
    /\ UNCHANGED laterVars

UciNext == ReadLine

UciSpec == Init /\ [][UciNext]_vars

TypeOK ==
    /\ wpc \in {"recv", "search", "exited", "panicked"}
    /\ boardLock \in {"free", "worker", "poisoned"}
    /\ board \in Positions
    /\ halt \in BOOLEAN /\ quit \in BOOLEAN
    /\ ss.terminate \in {"Nothing", "Stop", "Quit"}
    /\ ss.ply \in 0..Ceiling
    /\ Len(controlQ) <= MaxCmds

(***************************************************************************)
(* Properties.                                                             *)
(***************************************************************************)
\* the indices of the events of cycle c of the given type
EventIdx(c, type) ==
    {i \in DOMAIN events : events[i].cycle = c /\ events[i].type = type}

\* the indices of all events of cycle c
CycleIdx(c) == {i \in DOMAIN events : events[i].cycle = c}

\* cycle c is the one the worker is running now
RunningCycle(c) == c = cycle /\ wpc = "search"

\* the worker panicked while setting cycle c up, before the deepening loop
SetupPanic(c) == c = cycle /\ wpc = "panicked" /\ id.pc # "done"

\* C1: every cycle whose deepening loop has ended (by the depth ceiling, a
\* Stop or Quit, or a time limit) has sent exactly one BestMove, after every
\* other event of the cycle; a running cycle has sent none yet.
C1_OneBestMovePerCycle ==
    \A c \in 1..cycle :
        IF RunningCycle(c) THEN EventIdx(c, "BestMove") = {}
        ELSE \/ SetupPanic(c)
             \/ /\ Cardinality(EventIdx(c, "BestMove")) = 1
                /\ \A i \in CycleIdx(c) : \A j \in EventIdx(c, "BestMove") : i <= j

\* C2: cancellation takes effect only after the depth-1 iteration has
\* completed (its Summary is out), and the driver never returns without a
\* best move.
C2_DepthOneCompletes ==
    /\ (wpc = "search" /\ ss.terminate # "Nothing")
          => \E i \in EventIdx(cycle, "Summary") : events[i].depth = 1
    /\ (id.pc = "done") => (id.best_move # None)

\* C3: when the cycle whose poll took a Stop is over, its BestMove is out and
\* the worker is idle and halted (or has exited on a Quit taken later); from
\* there the worker starts a cycle only on receiving a Start.
C3_StopLeadsToIdle ==
    [][/\ ("Stop" \in polled' /\ wpc' # "search")
            => /\ wpc' \in {"recv", "exited"}
               /\ halt'
               /\ EventIdx(cycle, "BestMove")' # {}
       /\ ("Stop" \in polled /\ wpc = "recv" /\ wpc' = "search")
            => lastCmd'.type = "Start"]_vars

\* C4: once a Quit has been taken from the channel, by the worker loop or by
\* a poll in any search mode, the worker never waits for a command again and
\* runs no cycle but the one that took the Quit.
C4_QuitTerminatesWorker ==
    quitTaken => /\ wpc # "recv"
                 /\ (wpc = "search" => "Quit" \in polled)

\* C5: a cycle is running only as the result of the Start received last, and
\* with the params of that Start; Stop, Quit and Nothing start none.
C5_OnlyStartStartsCycle ==
    (wpc = "search") => (lastCmd.type = "Start" /\ search_params = lastCmd.sp)

\* C6: within a cycle the k-th Summary sent has depth k: the depths start at
\* 1 and go up by exactly 1, in the order sent.
C6_SummaryDepthsIncrease ==
    \A c \in 1..cycle :
        \A i \in EventIdx(c, "Summary") :
            events[i].depth = Cardinality({j \in EventIdx(c, "Summary") : j <= i})

C6_Witness ==
    /\ Cardinality(EventIdx(cycle, "Summary")) >= 3
    /\ wpc = "recv"

\* C7: once the termination flag is set during the iteration of depth d,
\* the cycle has no Summary for depth d or any later depth: a Summary is
\* sent only for a root call that returned with the flag unset.
C7_NoSummaryAfterTerminate ==
    (cycle >= 1 /\ ss.terminate # "Nothing")
        => \A i \in EventIdx(cycle, "Summary") : events[i].depth < ss.depth

C7_Witness ==
    /\ ss.terminate # "Nothing"
    /\ ss.depth >= 2
    /\ Cardinality(EventIdx(cycle, "Summary")) = ss.depth - 1
    /\ id.pc = "done"

\* C8: every negamax or quiescence call returns with the Board and the ply
\* it was entered with, and whenever no call is active in a cycle (between
\* iterations and when the cycle ends, completed or aborted) the Board is the
\* one the cycle started with and ply is 0.
C8_MakeUndoBalanced ==
    /\ (lastRet.fn # None)
          => /\ lastRet.exit_board = lastRet.entry_board
             /\ lastRet.exit_ply = lastRet.entry_ply
    /\ ((wpc \in {"search", "panicked"} \/ boardLock = "worker") /\ stack = <<>>)
          => (cycle >= 1 => board = cycleStart /\ ss.ply = 0)

\* an aborted cycle is over: the root call returned under cancellation after
\* moves had been made and undone during the unwinding
C8_Witness ==
    /\ id.pc = "done"
    /\ ss.terminate # "Nothing"
    /\ ss.seldepth >= 2
    /\ lastRet.fn = "negamax"
    /\ lastRet.entry_ply = 0
    /\ lastRet.exit \in {"normal", "beta"}
    /\ lastRet.terminate # "Nothing"

\* C9: while a cycle is running the worker holds the lock of the Board, so
\* between the calls of a cycle the Board is the one the cycle started with:
\* no other thread has replaced it.
C9_LockHeldDuringCycle ==
    (wpc = "search")
        => /\ boardLock = "worker"
           /\ (stack = <<>> => board = cycleStart)

\* a cycle is in the middle of a search, the Board holding a position of the
\* search tree, while the controller has sent a further command
C9_Witness ==
    /\ wpc = "search"
    /\ Len(stack) >= 2
    /\ board # cycleStart
    /\ controlQ # <<>>

\* C10: every Summary carries the score and the principal variation that the
\* search with the table disabled gives for the same root and depth.
C10_TTTransparency ==
    (events # <<>> /\ wpc = "search"
        /\ events[Len(events)].type = "Summary"
        /\ events[Len(events)].cycle = cycle)
    => LET e == events[Len(events)]
           r == RefIteration(cycleStart, e.depth)
       IN  /\ e.cp = r.val
           /\ (e.pv # <<>> /\ r.pv # <<>>) => e.pv[1] = r.pv[1]
           /\ (e.pv = <<>>) <=> (r.pv = <<>>)

\* C11: every score a negamax call returns lies within [-INFINITY, INFINITY],
\* and a call returns -INFINITY + ply only from a node without legal moves
\* whose side to move is in check.
C11_ScoreRangeAndMate ==
    (lastRet.fn = "negamax")
        => /\ lastRet.val >= -INFINITY
           /\ lastRet.val <= INFINITY
           /\ (lastRet.val = -INFINITY + lastRet.entry_ply)
                 => /\ LegalMoves(lastRet.entry_board) = <<>>
                    /\ InCheck(lastRet.entry_board)

\* the side to move in b is checkmated
IsCheckmate(b) == LegalMoves(b) = <<>> /\ InCheck(b)

\* the names of the legal moves of b that deliver checkmate
MatingMoves(b) ==
    {LegalMoves(b)[i].mv : i \in {j \in DOMAIN LegalMoves(b) :
                                      IsCheckmate(LegalMoves(b)[j].to)}}

\* C12: when the root of a cycle has a move that delivers checkmate, every
\* Summary of the cycle (depth >= 1) has such a move as the head of its
\* principal variation and the score of a mate one ply from the root, in
\* favour of the side to move: INFINITY - 1.
C12_MateInOne ==
    (cycle >= 1 /\ MatingMoves(cycleStart) # {})
        => \A i \in EventIdx(cycle, "Summary") :
              /\ events[i].pv # <<>>
              /\ events[i].pv[1] \in MatingMoves(cycleStart)
              /\ events[i].cp = INFINITY - 1

\* C13: within a cycle the node counts of the Summary events never go down
\* from one Summary to the next, and the node counter of the running cycle
\* is never below a count it has reported.
C13_NodesNonDecreasing ==
    \A c \in 1..cycle :
        \A i \in EventIdx(c, "Summary") :
            /\ \A j \in EventIdx(c, "Summary") :
                  (i < j) => (events[i].nodes <= events[j].nodes)
            /\ (c = cycle) => (events[i].nodes <= ss.nodes)

\* a cycle that reported three depths, each with more nodes than the last
C13_Witness ==
    \E i, j, k \in EventIdx(cycle, "Summary") :
        /\ i < j /\ j < k
        /\ events[i].nodes < events[j].nodes
        /\ events[j].nodes < events[k].nodes

\* no pawn, rook or queen is on the board
NoHeavyPiece(m) == \A k \in HeavyCounts : m[k] = 0

\* C14: the test answers true exactly when no pawn, rook or queen is left,
\* each side has at most one minor piece in total, and no side has a minor
\* piece of a type the other side has too.
C14_InsufficientMaterialExact ==
    matDraw <=>
        /\ NoHeavyPiece(mat)
        /\ mat.white_bishop_count + mat.white_knight_count <= 1
        /\ mat.black_bishop_count + mat.black_knight_count <= 1
        /\ (mat.white_bishop_count = 0 \/ mat.black_bishop_count = 0)
        /\ (mat.white_knight_count = 0 \/ mat.black_knight_count = 0)

\* how many times hash h occurs in the history
Occurrences(h) == Cardinality({i \in DOMAIN hist : hist[i] = h})

\* C15: is_draw reports a draw for the position after a move when that
\* position's hash occurs at least 3 times in the history, and when the last
\* 100 plies (FiftyMovePlies here) or more saw no capture.
C15_RepetitionAndFiftyMoves ==
    (Len(hist) >= 2)
        => /\ (Occurrences(Hash(board)) >= 3) => drawSeen
           /\ (halfmove >= FiftyMovePlies) => drawSeen

\* C16: the evaluation of a position is the negative of the evaluation of
\* its colour-flipped mirror, for pieces of every kind on every square.
C16_EvaluationSymmetry ==
    evalScore = -mirrorScore

\* C17: every line of input read is mapped to a report, the reader thread
\* never aborts, and it exits only on Quit.
C17_ReaderNeverAborts ==
    /\ reader # "panicked"
    /\ Len(reports) = linesRead
    /\ (reader = "exited") => (reports[Len(reports)] = "Quit")

\* C18: a Start that check_terminate takes from the queue while a cycle is
\* running is not discarded: its params are the remembered params from then
\* on (until a later Start), so the next cycle uses them.
C18_StartDuringCycleKept ==
    (startTaken # NoParams) => (search_params = startTaken)

\* C19: the move of a cycle's BestMove event is the head of the root
\* principal variation as the last iteration that ran left it, whether that
\* iteration completed or was aborted part-way.
C19_BestMoveIsLastPvHead ==
    (id.pc = "done" /\ EventIdx(cycle, "BestMove") # {})
        => /\ id.root_pv # <<>>
           /\ \A i \in EventIdx(cycle, "BestMove") :
                 events[i].pv[1] = id.root_pv[1]

\* the entries the search has stored in the table
StoredEntries == {tt[i] : i \in {j \in DOMAIN tt : tt[j].flag # "Nothing"}}

\* the remaining depths a node can be probed with
ProbeDepths == 0..(Ceiling + 1)

\* SearchData::get accepts the entry e at remaining depth d, the window
\* being one the entry's flag admits
Trusts(e, d) == SearchDataGet(e, d, 0, e.eval, e.eval).some

\* the remaining depth the call that returned last probed the table with
\* (search.rs:208-212: one more when the side to move is in check)
ProbedDepth(r) == r.depth + (IF InCheck(r.entry_board) THEN 1 ELSE 0)

TTHitStep ==
    /\ Running("negamax", "enter")
    /\ Len(stack') = Len(stack) - 1
    /\ lastRet'.exit = "tt_hit"

\* the step in which a negamax call goes on to its move loop (search.rs:230)
ExpandStep ==
    /\ Running("negamax", "enter")
    /\ Len(stack') = Len(stack)
    /\ stack'[Len(stack)].fn = "negamax"
    /\ stack'[Len(stack)].pc = "loop"

\* the bucket the probe of the call on top of the stack looks at
ProbedEntry == tt[Hash(board) % TTSize]

\* the remaining depth the call on top of the stack probes with
\* (search.rs:208-212)
TopDepth == Top.depth + (IF InCheck(board) THEN 1 ELSE 0)

\* the bucket holds an entry for the probing position, stored deep enough
\* for SearchData::get to look at its flag (search.rs:222, 620)
DeepEntry == ProbedEntry.hash = Hash(board) /\ ProbedEntry.depth > TopDepth

\* search.rs:623-629: a stored score as retrieved at ply
Retrieved(v, ply) ==
    IF v > INFINITY \div 2 THEN v - ply
    ELSE IF v < -(INFINITY \div 2) THEN v + ply
    ELSE v

\* the flag of entry e admits the window (alpha, beta), search.rs:622-643
Conclusive(e, alpha, beta) ==
    \/ e.flag = "Exact"
    \/ e.flag = "Beta" /\ e.eval >= beta
    \/ e.flag = "Alpha" /\ e.eval <= alpha

(***************************************************************************)
(* SearchData::create and SearchData::get on their own, search.rs:600-648: *)
(* an entry is created from a score at a ply and probed at a ply with a    *)
(* window.                                                                 *)
(***************************************************************************)
\* Most remaining depth and most ply an entry is created and probed with.
MaxProbeDepth == 2
MaxProbePly == 2

\* Scores a node stores: mates near either end of the range, and scores of
\* the static evaluation.
ProbeScores ==
    {-INFINITY + 1, -INFINITY + 3, -300, 0, 300, INFINITY - 3, INFINITY - 1}

\* search.rs:275-284, 310-319: a node stores its result
CreateEntry ==
    /\ ~stored.made
    /\ \E depth \in 1..MaxProbeDepth, ply \in 0..MaxProbePly,
          flag \in {"Exact", "Alpha", "Beta"}, eval \in ProbeScores :
          stored' = [made |-> TRUE, depth |-> depth, ply |-> ply, flag |-> flag,
                     eval |-> eval,
                     entry |-> SearchDataCreate(depth, ply, flag, eval, "a")]
    /\ probed' = NoProbe
    /\ UNCHANGED clockVars
    /\ UNCHANGED phaseVars
    /\ UNCHANGED mainVars
    /\ UNCHANGED materialVars
    /\ UNCHANGED gameVars
    /\ UNCHANGED evalVars
    /\ UNCHANGED uciVars

\* search.rs:222-223: a node probes the entry with its window
ProbeEntry ==
    /\ stored.made
    /\ ~probed.made
    /\ \E depth \in 0..MaxProbeDepth, ply \in 0..MaxProbePly,
          alpha \in ProbeScores, beta \in ProbeScores :
          /\ alpha < beta
          /\ probed' = [made |-> TRUE, depth |-> depth, ply |-> ply,
                       alpha |-> alpha, beta |-> beta,
                       result |-> SearchDataGet(stored.entry, depth, ply,
                                                alpha, beta)]
    /\ UNCHANGED stored
    /\ UNCHANGED clockVars
    /\ UNCHANGED phaseVars
    /\ UNCHANGED mainVars
    /\ UNCHANGED materialVars
    /\ UNCHANGED gameVars
    /\ UNCHANGED evalVars
    /\ UNCHANGED uciVars

ProbeNext ==
    \/ CreateEntry
    \/ ProbeEntry

ProbeSpec == Init /\ [][ProbeNext]_vars

\* the probe was made on an entry deep enough for its flag to be looked at
DeepProbe == probed.made /\ stored.entry.depth > probed.depth

\* C21: a probe of a sufficiently deep entry returns the stored score (a
\* mate score as retrieved at the probing ply) when the entry is Exact, is
\* a lower bound with stored score >= beta, or is an upper bound with
\* stored score <= alpha, and is inconclusive in every other case.
C21_ProbeReturnsStoredScore ==
    DeepProbe
        => /\ probed.result.some
                <=> Conclusive(stored.entry, probed.alpha, probed.beta)
           /\ probed.result.some
                => probed.result.value \in
                      {stored.entry.eval, Retrieved(stored.entry.eval, probed.ply)}

MovedScore(s, p, q) ==
    IF s > INFINITY \div 2 THEN s + p - q
    ELSE IF s < -(INFINITY \div 2) THEN s - p + q
    ELSE s

\* C23: the score an entry was created from at ply p counts, in a probe at
\* ply q, as that score moved by p - q plies when it is a mate score and
\* unchanged otherwise, for every flag: an Exact entry returns it, a lower
\* bound is conclusive exactly when it is >= beta and an upper bound
\* exactly when it is <= alpha.
C23_MateDistanceRoundTrip ==
    DeepProbe
        => LET moved == MovedScore(stored.eval, stored.ply, probed.ply)
           IN  CASE stored.flag = "Exact" ->
                       probed.result.some /\ probed.result.value = moved
                 [] stored.flag = "Beta" ->
                       probed.result.some <=> (moved >= probed.beta)
                 [] stored.flag = "Alpha" ->
                       probed.result.some <=> (moved <= probed.alpha)
                 [] OTHER -> TRUE

\* the step in which a negamax call returns from its move loop
\* (search.rs:286, 304, 306, 321); the unprimed state is the call's state
\* when the last score came in
LoopReturnStep ==
    /\ wpc = "search"
    /\ stack # <<>>
    /\ Top.fn = "negamax"
    /\ Top.pc \in {"loop", "after_null", "after_full"}
    /\ Len(stack') = Len(stack) - 1

\* the table differs from the one before at most in the bucket of hash
OnlyBucketWritten(hash) ==
    \A i \in DOMAIN tt : i # hash % TTSize => tt'[i] = tt[i]

\* C24: a negamax call that leaves its move loop after at least one legal
\* move writes the bucket of its hash and no other: a Beta entry when it
\* returns beta on a cutoff, else an Exact entry when its alpha ended
\* strictly between the alpha it was called with and beta, else an Alpha
\* entry with its alpha unchanged; without a cutoff it returns its alpha. A
\* call without legal moves writes nothing.
C24_EntryStoredOnExit ==
    [][LoopReturnStep
         => LET f == Top
                e == tt'[f.position_hash % TTSize]
            IN  /\ OnlyBucketWritten(f.position_hash)
                /\ lastRet'.exit \in {"beta", "normal", "no_moves"}
                /\ lastRet'.exit = "no_moves"
                     => tt' = tt /\ LegalMoves(board) = <<>>
                /\ lastRet'.exit # "no_moves"
                     => /\ e.hash = f.position_hash
                        /\ e.depth = f.depth
                        /\ f.position_hash = Hash(lastRet'.entry_board)
                /\ lastRet'.exit = "beta"
                     => /\ e.flag = "Beta"
                        /\ lastRet'.val = f.beta
                /\ lastRet'.exit = "normal"
                     => /\ lastRet'.val = f.alpha
                        /\ f.idx > Len(LegalMoves(board))
                        /\ e.eval = SearchDataCreate(f.depth, ss.ply, e.flag,
                                                     f.alpha, e.best_move).eval
                        /\ IF f.alpha > f.alpha0
                           THEN e.flag = "Exact" /\ f.alpha < f.beta
                           ELSE e.flag = "Alpha" /\ f.alpha = f.alpha0]_vars

\* a call has just returned beta on a cutoff and the bucket of its position
\* holds the Beta entry
C24_Witness ==
    /\ lastRet.fn = "negamax"
    /\ lastRet.exit = "beta"
    /\ tt[Hash(lastRet.entry_board) % TTSize].hash = Hash(lastRet.entry_board)
    /\ tt[Hash(lastRet.entry_board) % TTSize].flag = "Beta"
    /\ tt[Hash(lastRet.entry_board) % TTSize].eval = lastRet.val

\* the legal moves of position b in the order: the move named pv first when
\* it is legal, then the other captures, then the other moves, each group in
\* generator order
PvFirstOrder(b, pv) ==
    LET IsPv(m) == m.mv = pv
        IsCapture(m) == m.mv # pv /\ m.cap
        IsQuiet(m) == m.mv # pv /\ ~m.cap
    IN  SelectSeq(LegalMoves(b), IsPv) \o SelectSeq(LegalMoves(b), IsCapture)
            \o SelectSeq(LegalMoves(b), IsQuiet)

\* the moves made on the way to frame k follow the pv of the iteration before
OnPvPath(k) ==
    /\ k <= Len(id.root_pv)
    /\ \A j \in 1..(k - 1) : stack[j].legal.mv = id.root_pv[j]

\* the pv move of the iteration before for the node of frame k, if any
PvMoveOf(k) == IF OnPvPath(k) THEN id.root_pv[k] ELSE None

\* C25: the move a negamax call is searching as its idx-th is the idx-th of
\* its legal moves ordered pv move first, then captures, then the rest.
C25_PvMoveSearchedFirst ==
    \A k \in DOMAIN stack :
        (stack[k].fn = "negamax" /\ stack[k].pc \in {"after_null", "after_full"})
            => stack[k].legal
                 = PvFirstOrder(stack[k].entry_board, PvMoveOf(k))[stack[k].idx]

\* C26: a negamax call in its move loop at a position without legal moves
\* returns -INFINITY + ply when the side to move is in check and 0 when it
\* is not, and no call returns this way at a position that has a legal
\* move; seen from the parent, a mate at a smaller ply scores higher.
C26_MateAndStalemateScores ==
    [][(/\ Running("negamax", "loop") /\ stack' # stack
        /\ \/ LegalMoves(board) = <<>>
           \/ Len(stack') < Len(stack) /\ lastRet'.exit = "no_moves")
         => /\ LoopReturnStep
            /\ LegalMoves(board) = <<>>
            /\ lastRet'.exit = "no_moves"
            /\ lastRet'.exit_ply = ss.ply
            /\ lastRet'.val = IF InCheck(board) THEN -INFINITY + ss.ply ELSE 0
            /\ \A q \in 0..Ceiling :
                  (InCheck(board) /\ ss.ply < q)
                      => -lastRet'.val > -(-INFINITY + q)]_vars

\* a call has returned the mate score of a checkmate two plies or more from
\* the root
C26_Witness ==
    /\ lastRet.fn = "negamax"
    /\ lastRet.exit = "no_moves"
    /\ InCheck(lastRet.entry_board)
    /\ lastRet.exit_ply >= 2
    /\ lastRet.val = -INFINITY + lastRet.exit_ply

\* the largest multiple of the poll interval that is <= n
LastMultiple(n) == n - (n % PollInterval)

\* C27: once the first call of a cycle has been entered, check_terminate has
\* been called at the largest multiple of the poll interval the node counter
\* has passed, and at the multiple the counter stands on unless negamax has
\* only just counted up to it; so the counter is never more than one
\* interval ahead of the latest poll.
C27_NoPollSkipped ==
    (wpc = "search" /\ (ss.nodes > 0 \/ lastPoll # NoneNum))
        => /\ lastPoll # NoneNum
           /\ lastPoll % PollInterval = 0
           /\ ss.nodes - lastPoll <= PollInterval
           /\ IF ss.nodes % PollInterval = 0
              THEN lastPoll \in {ss.nodes, ss.nodes - PollInterval}
              ELSE lastPoll = LastMultiple(ss.nodes)

\* the poll has been made at the second multiple of the interval and the
\* counter has gone on from there
C27_Witness ==
    /\ wpc = "search"
    /\ lastPoll >= 2 * PollInterval
    /\ ss.nodes > lastPoll

\* C28: once the poll has set the flag, every negamax or quiescence call
\* that returns does so with 0.
C28_CancelledFramesReturnZero ==
    (lastRet.fn # None /\ lastRet.terminate # "Nothing") => lastRet.val = 0

(***************************************************************************)
(* The time allocation of a GameTime cycle on its own, search.rs:92-129.   *)
(***************************************************************************)
\* Clocks and increments in milliseconds, and moves to go, a `go` command
\* can carry (NoneNum: the field is absent).
ClockValues == {0, 50, 1000, 60000}
IncrementValues == {NoneNum, 0, 200}
MovesToGoValues == {NoneNum, 0, 1, 40}

\* a GameTime search is started with both clocks known
SetClocks ==
    /\ ~clocks.set
    /\ \E wt \in ClockValues, bt \in ClockValues, wi \in IncrementValues,
          bi \in IncrementValues, mtg \in MovesToGoValues, w \in BOOLEAN :
          clocks' = [set |-> TRUE, game_time |-> GameTime(wt, bt, wi, bi, mtg),
                     is_white |-> w]
    /\ UNCHANGED budget
    /\ UNCHANGED probeVars
    /\ UNCHANGED phaseVars
    /\ UNCHANGED mainVars
    /\ UNCHANGED materialVars
    /\ UNCHANGED gameVars
    /\ UNCHANGED evalVars
    /\ UNCHANGED uciVars

\* search.rs:92-129: the budget is computed at the start of the cycle
Allocate ==
    /\ clocks.set
    /\ ~budget.made
    /\ LET a == AllocatedTime(clocks.game_time, clocks.is_white)
       IN  budget' = [made |-> TRUE, panic |-> a.panic, value |-> a.value]
    /\ UNCHANGED clocks
    /\ UNCHANGED probeVars
    /\ UNCHANGED phaseVars
    /\ UNCHANGED mainVars
    /\ UNCHANGED materialVars
    /\ UNCHANGED gameVars
    /\ UNCHANGED evalVars
    /\ UNCHANGED uciVars

ClockNext ==
    \/ SetClocks
    \/ Allocate

ClockSpec == Init /\ [][ClockNext]_vars

\* base + increment - 100 ms in microseconds for the side to move, with
\* base = clock / 20 without moves to go, clock for 0 moves to go and
\* clock / moves_to_go otherwise
SliceUs(gt, is_white) ==
    LET clock == IF is_white THEN gt.white_time ELSE gt.black_time
        inc == IF is_white THEN gt.white_increment ELSE gt.black_increment
        base == IF gt.moves_to_go = NoneNum THEN (clock * 1000) \div 20
                ELSE IF gt.moves_to_go = 0 THEN clock * 1000
                ELSE (clock * 1000) \div gt.moves_to_go
    IN  base + (IF inc = NoneNum THEN 0 ELSE inc * 1000) - 100000

\* C29: for every pair of clocks, increments and moves to go the allocation
\* completes, and its budget is 0.4 x (base + increment - 100 ms) and is
\* not negative.
C29_BudgetDefinedAndNonNegative ==
    budget.made
        => /\ ~budget.panic
           /\ budget.value >= 0
           /\ budget.value = (SliceUs(clocks.game_time, clocks.is_white) * 4) \div 10

(***************************************************************************)
(* is_endgame on its own, evaluation.rs:117-168: the queens, rooks,        *)
(* knights and bishops of both sides in every combination of counts.       *)
(***************************************************************************)
\* Most queens a side has in the positions examined.
MaxQueens == 2

\* n pieces of a kind and colour on squares of their own, from square first
Group(kind, colour, first, n) ==
    {Piece(kind, colour, first + i) : i \in 0..(n - 1)}

\* the pieces of one side: q queens, r rooks, n knights and b bishops
Side(colour, first, q, r, n, b) ==
    Group("Queen", colour, first, q) \cup Group("Rook", colour, first + 8, r)
        \cup Group("Knight", colour, first + 16, n)
        \cup Group("Bishop", colour, first + 24, b)

\* evaluation.rs:10: evaluate_position asks for the phase of its position
DetectPhase ==
    /\ ~army.set
    /\ \E wq \in 0..MaxQueens, wr \in 0..MaxHeavy, wn \in 0..MaxMinor,
          wb \in 0..MaxMinor, bq \in 0..MaxQueens, br \in 0..MaxHeavy,
          bn \in 0..MaxMinor, bb \in 0..MaxMinor :
          LET ps == Side("White", 0, wq, wr, wn, wb)
                        \cup Side("Black", 32, bq, br, bn, bb)
          IN  /\ army' = [set |-> TRUE, pieces |-> ps]
              /\ phase' = is_endgame(ps)
    /\ UNCHANGED probeVars
    /\ UNCHANGED clockVars
    /\ UNCHANGED mainVars
    /\ UNCHANGED materialVars
    /\ UNCHANGED gameVars
    /\ UNCHANGED evalVars
    /\ UNCHANGED uciVars

PhaseNext == DetectPhase

PhaseSpec == Init /\ [][PhaseNext]_vars

\* a side without a queen, or with one queen, at most one minor piece and
\* no rook
SideInEndgame(ps, c) ==
    \/ CountOf(ps, {"Queen"}, c) = 0
    \/ /\ CountOf(ps, {"Queen"}, c) = 1
       /\ CountOf(ps, {"Knight", "Bishop"}, c) <= 1
       /\ CountOf(ps, {"Rook"}, c) = 0

\* C30: is_endgame answers true exactly when there is no queen on the board
\* or both sides are in the endgame, a side being so when it has no queen or
\* has one queen, at most one minor piece and no rook.
C30_EndgameDetection ==
    army.set
        => (phase <=>
              \/ CountOf(army.pieces, {"Queen"}, "White")
                    + CountOf(army.pieces, {"Queen"}, "Black") = 0
              \/ /\ SideInEndgame(army.pieces, "White")
                 /\ SideInEndgame(army.pieces, "Black"))

\* C31: the table outlives the cycles: a bucket that holds an entry keeps
\* holding one (the same, or the one that overwrote it), also across the
\* start of the next cycle.
C31_TableOutlivesCycles ==
    [][\A i \in DOMAIN tt :
          tt[i].flag # "Nothing"
              => /\ tt'[i].flag # "Nothing"
                 /\ (cycle' # cycle => tt'[i] = tt[i])]_vars

\* C32: the counters of the search stay within their width, the ceiling
\* standing for 255: the ply and the deepest ply are within 0..Ceiling and
\* there is one active call per ply; the depth of a call, before and after
\* the check extension, is within 0..Ceiling; a negamax call in its move
\* loop, which hands depth - 1 to its children, has depth >= 1; and the
\* depth of the iteration being searched is within 1..Ceiling - 1.
C32_CountersWithinWidth ==
    /\ ss.ply \in 0..Ceiling
    /\ ss.seldepth \in 0..Ceiling
    /\ Len(stack) <= Ceiling + 1
    /\ id.depth \in 1..Ceiling
    /\ stack # <<>> => ss.depth \in 1..(Ceiling - 1)
    /\ \A k \in DOMAIN stack :
          /\ stack[k].entry_ply = k - 1
          /\ stack[k].depth \in 0..Ceiling
          /\ (stack[k].fn = "negamax" /\ stack[k].pc = "enter" /\ k = Len(stack)
                /\ InCheck(board))
                => stack[k].depth + 1 <= Ceiling
          /\ (stack[k].fn = "negamax" /\ stack[k].pc # "enter")
                => stack[k].depth >= 1
          /\ stack[k].pc # "enter" => stack[k].entry_ply < Ceiling

\* a call entered at the ply ceiling has returned the static evaluation
C32_Witness ==
    /\ lastRet.exit = "ply_limit"
    /\ lastRet.entry_ply = Ceiling
    /\ lastRet.exit_ply = Ceiling

\* the index of the last Summary of cycle c
LastSummary(c) ==
    CHOOSE i \in EventIdx(c, "Summary") :
        \A j \in EventIdx(c, "Summary") : j <= i

\* C33: in a cycle that has sent a Summary, the BestMove event comes after
\* the last Summary and carries the first move of that Summary's pv.
C33_BestMoveIsLastSummaryHead ==
    \A c \in 1..cycle :
        EventIdx(c, "Summary") # {}
            => \A b \in EventIdx(c, "BestMove") :
                  /\ LastSummary(c) < b
                  /\ events[LastSummary(c)].pv # <<>>
                  /\ events[b].pv = <<events[LastSummary(c)].pv[1]>>

\* a cycle has ended after an aborted iteration whose pv starts with another
\* move than the one the BestMove event carries
C33_Witness ==
    /\ id.pc = "done"
    /\ ss.terminate # "Nothing"
    /\ EventIdx(cycle, "Summary") # {}
    /\ id.root_pv # <<>>
    /\ \E b \in EventIdx(cycle, "BestMove") : events[b].pv[1] # id.root_pv[1]

====
